---- MODULE Spec2Model ----
(***************************************************************************)
(* Model of karton/main.py: the command registry built inside run_karton   *)
(* (add_command, add_to_every_command), argparse's parse of the argument   *)
(* list against that registry (Python 2.7 argparse, with the               *)
(* ArgumentParser.error override), the dispatch in run_karton, and the     *)
(* fault boundary in main.                                                 *)
(*                                                                         *)
(* Spec    : one process invocation of main(), with keyboard interrupts at *)
(*           any point and failing writes of argparse's output.            *)
(* SpecReg : the registry closures under arbitrary call sequences, from    *)
(*           the empty registry or after the program's own sequence.       *)
(***************************************************************************)
EXTENDS Integers, Sequences, FiniteSets, TLC

\* Longest argument list (sys.argv[1:]) explored.
MaxArgs == 3
\* Longest sequence of registry calls explored by SpecReg from the empty
\* registry.
MaxOps == 4
\* Most registry calls explored by SpecReg after the program's own sequence
\* (lines 126-214).
MaxExtraOps == 2

VARIABLES
    pc,            \* position of the invocation inside main / run_karton
    all_commands,  \* run_karton's dict: name -> CommandInfo
    subparsers,    \* argparse's sub-parsers action: name map and help listing
    heap,          \* the sub-parser objects, by identity (creation index)
    ops,           \* history: the registry calls made so far and their results
    argv,          \* the argument list parse_args() read
    parsed_args,   \* the namespace parse_args() returned
    command,       \* run_karton's local: the CommandInfo looked up at line 221
    verbose_state, \* the logging module's process-wide verbosity
    set_count,     \* history: number of writes to verbose_state
    called,        \* history: handler invocations (callback, arguments)
    out,           \* messages emitted so far, in order
    exc,           \* what run_karton raised ("none": nothing so far)
    exits,         \* history: the exit codes the process produced
    fallthrough,   \* history: line 253 (raise SystemExit(0)) was reached
    main_interrupted \* history: a KeyboardInterrupt was raised in main's own code

vars == <<pc, all_commands, subparsers, heap, ops, argv, parsed_args, command,
          verbose_state, set_count, called, out, exc, exits, fallthrough,
          main_interrupted>>

regvars == <<all_commands, subparsers, heap, ops>>
runvars == <<argv, parsed_args, command, verbose_state, set_count, called, out, exc,
             exits, fallthrough, main_interrupted>>

----------------------------------------------------------------------------
\* Small helpers for Python dicts.

EmptyDict == [k \in {} |-> k]

DictPut(d, k, v) == [x \in (DOMAIN d) \cup {k} |-> IF x = k THEN v ELSE d[x]]

----------------------------------------------------------------------------
\* Messages.  Every message is a record of the same shape.

Msg(stream, kind, about) == [stream |-> stream, kind |-> kind, about |-> about]

\* parser.print_help() of the main parser.
MsgProgramHelp == Msg("stdout", "help", "karton")
\* print_help() of the sub-parser whose prog is "karton <name>".
MsgCommandHelp(name) == Msg("stdout", "help", name)
\* The "error: ..." line argparse's error() writes to stderr through exit().
MsgUsageError == Msg("stderr", "usage_error", "")
\* The usage line argparse's error() writes, with print_usage, before the
\* "error: ..." line: two separate writes to stderr.
MsgUsage == Msg("stderr", "usage", "karton")
\* The interpreter's report of an exception nothing caught: the Exception
\* main re-raised, or a KeyboardInterrupt raised outside main's try block.
MsgTraceback == Msg("stderr", "traceback", "Exception")
MsgTracebackInterrupt == Msg("stderr", "traceback", "KeyboardInterrupt")

----------------------------------------------------------------------------
\* Exceptions in flight.

NoExc == [type |-> "none", code |-> 0]
SystemExit(code) == [type |-> "SystemExit", code |-> code]
KeyboardInterrupt == [type |-> "KeyboardInterrupt", code |-> 0]
\* Any exception derived from Exception (IOError, ArgumentError,
\* AttributeError...).
OtherException == [type |-> "Exception", code |-> 0]

----------------------------------------------------------------------------
\* The logging module (imported at lines 10-13; its code is not in main.py).

\* die(msg): emit msg and terminate the process with a failure exit code.
die(msg) == [out |-> <<msg>>, raises |-> SystemExit(1)]

\* info(msg): emit msg.
info(msg) == <<msg>>

\* verbose(msg): emit msg when verbose logging is enabled.
verbose(state, msg) == IF state THEN <<msg>> ELSE <<>>

\* set_verbose(v): the new value of the process-wide verbosity.
set_verbose(v) == v

\* get_verbose(): the process-wide verbosity.
get_verbose(state) == state

MsgInterrupted == Msg("stdout", "info", "Interrupted.")
MsgInternalErrorDie == Msg("stderr", "die", "Internal error! Got exception")
MsgInternalErrorVerbose == Msg("stderr", "verbose", "Internal error! Got exception")
MsgNotAKartonCommand(name) == Msg("stderr", "die:not a Karton command, try karton help", name)
MsgInvalidCommand(name) == Msg("stderr", "die:Invalid command", name)

----------------------------------------------------------------------------
\* The registry: run_karton's closures over all_commands and subparsers.
\* A registry value R bundles the three objects the closures share.

NoneValue == "<None>"

Registry(ac, sp, hp) == [all_commands |-> ac, subparsers |-> sp, heap |-> hp]

EmptyRegistry ==
    Registry(EmptyDict, [name_parser_map |-> EmptyDict, choices_actions |-> <<>>], <<>>)

CommandInfo(name, subparser, callback) ==
    [name |-> name, subparser |-> subparser, callback |-> callback]

\* The value of all_commands.get(name) for a name that is not registered.
NoCommand == CommandInfo(NoneValue, 0, NoneValue)

\* A fresh ArgumentParser for a sub-command: add_help gives it -h/--help.
NewSubparser(name) == [prog |-> name, opts |-> {"-h"}, positional |-> "none"]

\* argparse 2.7 _SubParsersAction.add_parser: no check for an existing name;
\* the name map entry is replaced, and when the call passes help= one more
\* help line is listed.
add_parser(sp, name, id, has_help) ==
    [name_parser_map |-> DictPut(sp.name_parser_map, name, id),
     choices_actions |-> IF has_help THEN Append(sp.choices_actions, name)
                         ELSE sp.choices_actions]

\* add_command(command_name, callback, *args, **kwargs): returns the new
\* registry; the sub-parser it returns is the object Len(R.heap) + 1.
\* has_help: the keyword arguments passed on to add_parser include help=.
add_command(R, command_name, callback, has_help) ==
    LET id == Len(R.heap) + 1
    IN  Registry(DictPut(R.all_commands, command_name,
                         CommandInfo(command_name, id, callback)),
                 add_parser(R.subparsers, command_name, id, has_help),
                 Append(R.heap, NewSubparser(command_name)))

\* parser.add_argument(option) refuses an option string the parser already
\* has: argparse's conflict_handler 'error' raises ArgumentError.
Conflicts(R, id, opt) == opt \in R.heap[id].opts

\* parser.add_argument(name, nargs=...) for a positional.
add_positional(R, id, kind) ==
    [R EXCEPT !.heap[id].positional = kind]

\* SharedArgument.add_to_parser(target_parser), lines 45-49, for an argument
\* the parser does not have yet.
add_to_parser(R, id, opt) ==
    [R EXCEPT !.heap[id].opts = @ \cup {opt}]

\* SharedArgument.add_group_to_parser(target_parser, shared_arguments), lines
\* 51-57: the arguments are added in order; add_argument raises
\* ArgumentError at the first one the parser already has, and the ones
\* before it stay added.
RECURSIVE add_group_to_parser(_, _, _)
add_group_to_parser(R, id, shared_arguments) ==
    IF shared_arguments = <<>> THEN [reg |-> R, raises |-> NoExc]
    ELSE IF Conflicts(R, id, Head(shared_arguments))
    THEN [reg |-> R, raises |-> OtherException]
    ELSE add_group_to_parser(add_to_parser(R, id, Head(shared_arguments)), id,
                             Tail(shared_arguments))

\* Mutant of IterSubparsers: every sub-parser ever created, registered or not.
IterAllSubparsers(R) == DOMAIN R.heap

\* The sub-parsers add_to_every_command iterates over:
\* all_commands.itervalues(), each command's .subparser.
IterSubparsers(R) == {R.all_commands[n].subparser : n \in DOMAIN R.all_commands}

\* add_to_every_command(opt) where the loop reached exactly the sub-parsers
\* in `reached` before it ended.
add_to_every_command(R, opt, reached) ==
    [R EXCEPT !.heap = [id \in DOMAIN R.heap |->
        IF id \in reached THEN [R.heap[id] EXCEPT !.opts = @ \cup {opt}]
        ELSE R.heap[id]]]

\* The outcomes of the loop.  With no conflicting sub-parser the loop reaches
\* every registered one.  Otherwise add_argument raises ArgumentError at the
\* first conflicting one; a dict's iteration order is arbitrary, so any set of
\* the non-conflicting ones may have been reached before that.
EveryCommandReach(R, opt) ==
    LET targets == IterSubparsers(R)
        bad == {id \in targets : Conflicts(R, id, opt)}
    IN  IF bad = {} THEN {targets} ELSE SUBSET (targets \ bad)

EveryCommandResult(R, opt) ==
    IF \E id \in IterSubparsers(R) : Conflicts(R, id, opt)
    THEN "ArgumentError" ELSE "ok"

----------------------------------------------------------------------------
\* argparse 2.7: parse_args() of the main parser over the registry.

\* The argument words explored.  "bogus" is a word that is no command name,
\* "--bad" an option no parser defines.
CommandNames == {"run", "shell", "start", "stop", "status", "build", "help"}
OptionTokens == {"-v", "-h", "--no-cd", "--auto-cd", "--bad"}
Tokens == CommandNames \cup {"bogus"} \cup OptionTokens

\* argparse classes an argument string as an option ('O') when it starts
\* with '-', and as a plain argument ('A') otherwise.
IsOptionLike(t) == t \in OptionTokens \cup {"-q"}

RECURSIVE SeqsUpTo(_)
SeqsUpTo(n) ==
    IF n = 0 THEN {<<>>}
    ELSE LET shorter == SeqsUpTo(n - 1)
         IN  shorter \cup {Append(s, t) : s \in {x \in shorter : Len(x) = n - 1},
                                          t \in Tokens}

ArgLists == SeqsUpTo(MaxArgs)

\* The namespace a sub-parser starts from: the defaults of its arguments.
\* Without a -v/--verbose argument the namespace has no 'verbose' attribute.
InitialNamespace(p) ==
    [status |-> "ok",
     has_verbose |-> "-v" \in p.opts,
     verbose |-> FALSE,
     cd |-> NoneValue,
     sub_command |-> NoneValue,
     remainder |-> <<>>,
     positional_done |-> FALSE,
     extras |-> <<>>]

\* The action of a known option: store_true for -v, store_const for the cd
\* options.
ApplyOption(ns, t) ==
    CASE t = "-v" -> [ns EXCEPT !.verbose = TRUE]
      [] t = "--no-cd" -> [ns EXCEPT !.cd = "no"]
      [] t = "--auto-cd" -> [ns EXCEPT !.cd = "auto"]
      [] OTHER -> ns

\* parse_known_args of the sub-parser p over rest, left to right:
\*  -h prints the sub-parser's help and exits at once; a known option runs
\*  its action; an unknown option is kept as an extra; the first plain
\*  argument goes to the positional (REMAINDER takes everything from there
\*  on, '?' takes that one word); any other plain argument is an extra.
RECURSIVE ScanSub(_, _, _)
ScanSub(p, rest, ns) ==
    IF rest = <<>> THEN ns
    ELSE LET t == Head(rest) IN
         IF IsOptionLike(t)
         THEN IF t = "-h" THEN [ns EXCEPT !.status = "help"]
              ELSE IF t \in p.opts THEN ScanSub(p, Tail(rest), ApplyOption(ns, t))
              ELSE ScanSub(p, Tail(rest), [ns EXCEPT !.extras = Append(@, t)])
         ELSE IF p.positional = "remainder" /\ ~ns.positional_done
              THEN [ns EXCEPT !.remainder = rest, !.positional_done = TRUE]
         ELSE IF p.positional = "optional" /\ ~ns.positional_done
              THEN ScanSub(p, Tail(rest),
                           [ns EXCEPT !.sub_command = t, !.positional_done = TRUE])
         ELSE ScanSub(p, Tail(rest), [ns EXCEPT !.extras = Append(@, t)])

\* Mutant of error: no special case for 'too few arguments'.
error_without_special_case(message) ==
    [out |-> <<MsgUsage, MsgUsageError>>, raises |-> SystemExit(2)]

\* ArgumentParser.error(message), lines 21-28: 'too few arguments' prints
\* the help and exits 1; any other message goes to argparse's error(),
\* which writes the usage line, then the error line, and exits 2.
error(message) ==
    IF message = "too few arguments"
    THEN [out |-> <<MsgProgramHelp>>, raises |-> SystemExit(1)]
    ELSE [out |-> <<MsgUsage, MsgUsageError>>, raises |-> SystemExit(2)]

\* No namespace: parse_args() has not returned one.
NoNamespace ==
    [command |-> NoneValue, has_verbose |-> FALSE, verbose |-> FALSE,
     cd |-> NoneValue, sub_command |-> NoneValue, remainder |-> <<>>]

ParseOk(ns) == [out |-> <<>>, raises |-> NoExc, ns |-> ns]
ParseExit(e) == [out |-> e.out, raises |-> e.raises, ns |-> NoNamespace]

\* The part of parse_args that starts at the first plain argument: the
\* sub-parsers action checks the word against its choices, then runs the
\* chosen sub-parser over the rest.
ParseCommand(R, words, top_extras) ==
    LET name == Head(words)
        map == R.subparsers.name_parser_map
    IN  IF name \notin DOMAIN map THEN ParseExit(error("invalid choice"))
        ELSE LET p == R.heap[map[name]]
                 ns == ScanSub(p, Tail(words), InitialNamespace(p))
             IN  IF ns.status = "help"
                 THEN ParseExit([out |-> <<MsgCommandHelp(p.prog)>>,
                                 raises |-> SystemExit(0)])
                 ELSE IF ns.extras # <<>> \/ top_extras
                 THEN ParseExit(error("unrecognized arguments"))
                 ELSE ParseOk([command |-> name,
                               has_verbose |-> ns.has_verbose,
                               verbose |-> ns.verbose,
                               cd |-> ns.cd,
                               sub_command |-> ns.sub_command,
                               remainder |-> ns.remainder])

\* parse_args of the main parser.  Before the first plain argument, -h
\* prints the program help and exits 0 and any other option is an extra;
\* with no plain argument at all the command is missing: 'too few arguments'.
RECURSIVE ParseTop(_, _, _)
ParseTop(R, words, top_extras) ==
    IF words = <<>> THEN ParseExit(error("too few arguments"))
    ELSE LET t == Head(words) IN
         IF IsOptionLike(t)
         THEN IF t = "-h"
              THEN ParseExit([out |-> <<MsgProgramHelp>>, raises |-> SystemExit(0)])
              ELSE ParseTop(R, Tail(words), TRUE)
         ELSE ParseCommand(R, words, top_extras)

parse_args(R, words) == ParseTop(R, words, FALSE)

----------------------------------------------------------------------------
\* The handlers.

\* Mutant of do_help: the `command is None` check of lines 189-191 is left
\* out, so line 193 fails on None.
do_help_without_check(R, help_parsed_args) ==
    LET sub_command_name == help_parsed_args.sub_command IN
    IF sub_command_name = NoneValue
    THEN [out |-> <<MsgProgramHelp>>, raises |-> NoExc]
    ELSE IF sub_command_name \notin DOMAIN R.all_commands
    THEN [out |-> <<>>, raises |-> OtherException]
    ELSE [out |-> <<MsgCommandHelp(R.heap[R.all_commands[sub_command_name].subparser].prog)>>,
          raises |-> NoExc]

\* Mutant of do_help: a registered name gets the program help instead of
\* the sub-parser's own.
do_help_program_help_only(R, help_parsed_args) ==
    LET sub_command_name == help_parsed_args.sub_command IN
    IF sub_command_name = NoneValue \/ sub_command_name \in DOMAIN R.all_commands
    THEN [out |-> <<MsgProgramHelp>>, raises |-> NoExc]
    ELSE die(MsgNotAKartonCommand(sub_command_name))

\* do_help(help_parsed_args), lines 182-193.  After die() the code goes on to
\* command.subparser with command None; that is reached only if die returns.
do_help(R, help_parsed_args) ==
    LET sub_command_name == help_parsed_args.sub_command IN
    IF sub_command_name = NoneValue
    THEN [out |-> <<MsgProgramHelp>>, raises |-> NoExc]
    ELSE IF sub_command_name \notin DOMAIN R.all_commands
    THEN LET d == die(MsgNotAKartonCommand(sub_command_name))
         IN  IF d.raises.type # "none" THEN d
             ELSE [out |-> d.out, raises |-> OtherException]
    ELSE LET found == R.all_commands[sub_command_name]
         IN  [out |-> <<MsgCommandHelp(R.heap[found.subparser].prog)>>,
              raises |-> NoExc]

\* do_run ... do_build, lines 63-84: the body of each is `pass`; the call
\* prints nothing and returns.
do_run(run_parsed_args) == [out |-> <<>>, raises |-> NoExc]
do_shell(shell_parsed_args) == [out |-> <<>>, raises |-> NoExc]
do_start(start_parsed_args) == [out |-> <<>>, raises |-> NoExc]
do_stop(stop_parsed_args) == [out |-> <<>>, raises |-> NoExc]
do_status(status_parsed_args) == [out |-> <<>>, raises |-> NoExc]
do_build(build_parsed_args) == [out |-> <<>>, raises |-> NoExc]

\* command.callback(parsed_args), line 227.
InvokeCallback(R, callback, args) ==
    CASE callback = "do_help" -> do_help(R, args)
      [] callback = "do_run" -> do_run(args)
      [] callback = "do_shell" -> do_shell(args)
      [] callback = "do_start" -> do_start(args)
      [] callback = "do_stop" -> do_stop(args)
      [] callback = "do_status" -> do_status(args)
      [] OTHER -> do_build(args)

\* The call printed through argparse: print_help() (lines 25, 185, 193 and
\* the -h action) or the usage error.  These write to sys.stdout/sys.stderr
\* with file.write(), which raises IOError when the stream cannot be written
\* (closed descriptor, broken pipe, terminal gone).
PrintsThroughArgparse(r) ==
    r.out # <<>> /\ r.out[1].kind \in {MsgProgramHelp.kind, MsgUsage.kind}

----------------------------------------------------------------------------
\* State and history.

CurrentRegistry == Registry(all_commands, subparsers, heap)

SetRegistry(R) ==
    /\ all_commands' = R.all_commands
    /\ subparsers' = R.subparsers
    /\ heap' = R.heap

OpAddCommand(name, callback, id) ==
    [op |-> "add_command", name |-> name, callback |-> callback, id |-> id,
     opt |-> "", result |-> "ok"]

\* A call of add_command that an interrupt ended before it returned.
OpAddCommandInterrupted(name, callback, id) ==
    [OpAddCommand(name, callback, id) EXCEPT !.result = "KeyboardInterrupt"]

OpAddGroup(id, result) ==
    [op |-> "add_group_to_parser", name |-> "", callback |-> "", id |-> id,
     opt |-> "", result |-> result]

OpAddToEvery(opt, result) ==
    [op |-> "add_to_every_command", name |-> "", callback |-> "", id |-> 0,
     opt |-> opt, result |-> result]

Init ==
    /\ pc = "main_try"
    /\ all_commands = EmptyRegistry.all_commands
    /\ subparsers = EmptyRegistry.subparsers
    /\ heap = EmptyRegistry.heap
    /\ ops = <<>>
    /\ argv = <<>>
    /\ parsed_args = NoNamespace
    /\ command = NoCommand
    /\ verbose_state = FALSE
    /\ set_count = 0
    /\ called = <<>>
    /\ out = <<>>
    /\ exc = NoExc
    /\ exits = <<>>
    /\ fallthrough = FALSE
    /\ main_interrupted = FALSE

\* run_karton raises e: control passes to main's except clauses.
Raise(e) == exc' = e /\ pc' = "main"

----------------------------------------------------------------------------
\* run_karton, lines 87-227.

\* The shared cd arguments, lines 110-124.
cd_args == <<"--no-cd", "--auto-cd">>

\* The seven registrations of lines 126-207, in order.
ProgramCommands ==
    << [name |-> "run", callback |-> "do_run", positional |-> "remainder", shared |-> cd_args],
       [name |-> "shell", callback |-> "do_shell", positional |-> "none", shared |-> cd_args],
       [name |-> "start", callback |-> "do_start", positional |-> "none", shared |-> <<>>],
       [name |-> "stop", callback |-> "do_stop", positional |-> "none", shared |-> <<>>],
       [name |-> "status", callback |-> "do_status", positional |-> "none", shared |-> <<>>],
       [name |-> "build", callback |-> "do_build", positional |-> "none", shared |-> <<>>],
       [name |-> "help", callback |-> "do_help", positional |-> "optional", shared |-> <<>>] >>

\* One registration block: add_command (every call passes help=), then the
\* command's own arguments.
RegisterBlock(R, c) ==
    LET id == Len(R.heap) + 1
    IN  add_group_to_parser(
            add_positional(add_command(R, c.name, c.callback, TRUE), id, c.positional),
            id, c.shared)

\* Lines 239-240 and 92-107: main enters the try block and calls
\* run_karton, which creates the parser, the empty all_commands and the
\* closures.
EnterRunKarton ==
    /\ pc = "main_try"
    /\ pc' = "register"
    /\ UNCHANGED <<regvars, runvars>>

RegisterCommand ==
    /\ pc = "register"
    /\ Len(ops) < Len(ProgramCommands)
    /\ LET c == ProgramCommands[Len(ops) + 1]
           b == RegisterBlock(CurrentRegistry, c)
       IN  /\ SetRegistry(b.reg)
           /\ ops' = Append(ops, OpAddCommand(c.name, c.callback, Len(b.reg.heap)))
           /\ IF b.raises = NoExc
              THEN /\ pc' = IF Len(ops') = Len(ProgramCommands)
                            THEN "add_verbose" ELSE "register"
                   /\ exc' = exc
              ELSE Raise(b.raises)
    /\ UNCHANGED <<argv, parsed_args, command, verbose_state, set_count, called,
                   out, exits, fallthrough, main_interrupted>>

\* Lines 210-214: add_to_every_command('-v', '--verbose', ...).
AddVerboseToAll ==
    /\ pc = "add_verbose"
    /\ \E reached \in EveryCommandReach(CurrentRegistry, "-v") :
         LET result == EveryCommandResult(CurrentRegistry, "-v")
         IN  /\ SetRegistry(add_to_every_command(CurrentRegistry, "-v", reached))
             /\ ops' = Append(ops, OpAddToEvery("-v", result))
             /\ IF result = "ok"
                THEN pc' = "parse" /\ exc' = exc
                ELSE Raise(OtherException)
    /\ UNCHANGED <<argv, parsed_args, command, verbose_state, set_count, called, out,
                   exits, fallthrough, main_interrupted>>

\* The history of lines 126-214 when every call completed: the seven
\* registrations, then add_to_every_command for -v.
ProgramOps ==
    [i \in 1..(Len(ProgramCommands) + 1) |->
        IF i <= Len(ProgramCommands)
        THEN OpAddCommand(ProgramCommands[i].name, ProgramCommands[i].callback, i)
        ELSE OpAddToEvery("-v", "ok")]

\* The registrations and the add_to_every_command call of lines 126-214
\* are complete.
BootstrapDone ==
    /\ Len(ops) >= Len(ProgramOps)
    /\ SubSeq(ops, 1, Len(ProgramOps)) = ProgramOps

\* Line 217: parsed_args = parser.parse_args().
Parse ==
    /\ pc = "parse"
    /\ \E words \in ArgLists :
         LET r == parse_args(CurrentRegistry, words)
         IN  /\ argv' = words
             /\ out' = out \o r.out
             /\ parsed_args' = r.ns
             /\ IF r.raises.type = "none"
                THEN pc' = "set_verbose" /\ exc' = exc
                ELSE Raise(r.raises)
    /\ UNCHANGED <<regvars, command, verbose_state, set_count, called, exits, fallthrough, main_interrupted>>

\* Mutant of SetVerbose: the call of line 219 is left out.
SetVerboseSkipped ==
    /\ pc = "set_verbose"
    /\ pc' = "lookup"
    /\ UNCHANGED <<regvars, runvars>>

\* Line 219: logging.set_verbose(parsed_args.verbose).
SetVerbose ==
    /\ pc = "set_verbose"
    /\ IF parsed_args.has_verbose
       THEN /\ verbose_state' = set_verbose(parsed_args.verbose)
            /\ set_count' = set_count + 1
            /\ pc' = "lookup"
            /\ exc' = exc
       ELSE /\ Raise(OtherException)
            /\ UNCHANGED <<verbose_state, set_count>>
    /\ UNCHANGED <<regvars, argv, parsed_args, command, called, out, exits, fallthrough, main_interrupted>>

\* Mutant of Lookup: the registry is asked for parsed_args.sub_command
\* instead of parsed_args.command.
LookupBySubCommand ==
    /\ pc = "lookup"
    /\ IF parsed_args.sub_command \in DOMAIN all_commands
       THEN /\ command' = all_commands[parsed_args.sub_command]
            /\ pc' = "callback"
            /\ UNCHANGED <<out, exc>>
       ELSE LET d == die(MsgInvalidCommand(parsed_args.sub_command))
            IN  /\ command' = NoCommand
                /\ out' = out \o d.out
                /\ Raise(IF d.raises.type # "none" THEN d.raises ELSE OtherException)
    /\ UNCHANGED <<regvars, argv, parsed_args, verbose_state, set_count, called,
                   exits, fallthrough, main_interrupted>>

\* Lines 221-223: command = all_commands.get(parsed_args.command), die if
\* None.  If die returned, line 227 would fail on None.
Lookup ==
    /\ pc = "lookup"
    /\ IF parsed_args.command \in DOMAIN all_commands
       THEN /\ command' = all_commands[parsed_args.command]
            /\ pc' = "callback"
            /\ UNCHANGED <<out, exc>>
       ELSE LET d == die(MsgInvalidCommand(parsed_args.command))
            IN  /\ command' = NoCommand
                /\ out' = out \o d.out
                /\ Raise(IF d.raises.type # "none" THEN d.raises ELSE OtherException)
    /\ UNCHANGED <<regvars, argv, parsed_args, verbose_state, set_count, called,
                   exits, fallthrough, main_interrupted>>

\* Line 227: command.callback(parsed_args).
Callback ==
    /\ pc = "callback"
    /\ LET r == InvokeCallback(CurrentRegistry, command.callback, parsed_args)
       IN  /\ called' = Append(called, [callback |-> command.callback,
                                        args |-> parsed_args])
           /\ out' = out \o r.out
           /\ IF r.raises.type = "none"
              THEN pc' = "main_end" /\ exc' = exc
              ELSE Raise(r.raises)
    /\ UNCHANGED <<regvars, argv, parsed_args, command, verbose_state, set_count, exits,
                   fallthrough, main_interrupted>>

\* The first k messages of a call that an interrupt cuts short.
Prefixes(msgs) == {SubSeq(msgs, 1, k) : k \in 0..Len(msgs)}

\* A keyboard interrupt delivered between two statements of run_karton.
RunKartonPcs == {"register", "add_verbose", "parse", "set_verbose", "lookup", "callback"}

Interrupt ==
    /\ pc \in RunKartonPcs
    /\ Raise(KeyboardInterrupt)
    /\ UNCHANGED <<regvars, argv, parsed_args, command, verbose_state, set_count, called,
                   out, exits, fallthrough, main_interrupted>>

\* The registries a keyboard interrupt inside the registration block of c
\* can leave, with the result of the block's add_command call.
\*  Inside add_command (the call does not return):
\*   Rh: inside add_parser, the help line is listed but the new parser is
\*       not in the name map (it is not reachable from the registry, so the
\*       heap does not hold it and the call's record names no sub-parser);
\*   R0: add_parser has returned, line 99 has not stored the CommandInfo;
\*   R1: line 99 has stored it, the interrupt arrives at line 103.
\*  After add_command returned: R1; the positional has been added (R2); the
\*  first k shared arguments have been added.
RegisterBlockInterrupted(R, c) ==
    LET id == Len(R.heap) + 1
        Rh == Registry(R.all_commands,
                       [R.subparsers EXCEPT !.choices_actions = Append(@, c.name)],
                       R.heap)
        R0 == Registry(R.all_commands,
                       add_parser(R.subparsers, c.name, id, TRUE),
                       Append(R.heap, NewSubparser(c.name)))
        R1 == add_command(R, c.name, c.callback, TRUE)
        R2 == add_positional(R1, id, c.positional)
    IN  {[reg |-> Rh, op |-> OpAddCommandInterrupted(c.name, c.callback, 0)]}
        \cup {[reg |-> X, op |-> OpAddCommandInterrupted(c.name, c.callback, id)] :
                 X \in {R0, R1}}
        \cup {[reg |-> X, op |-> OpAddCommand(c.name, c.callback, id)] :
                 X \in {R1, R2}
                        \cup {add_group_to_parser(R2, id, SubSeq(c.shared, 1, k)).reg :
                                 k \in 0..Len(c.shared)}}

\* A keyboard interrupt delivered inside a registration block, lines 126-207.
InterruptInRegister ==
    /\ pc = "register"
    /\ Len(ops) < Len(ProgramCommands)
    /\ \E b \in RegisterBlockInterrupted(CurrentRegistry, ProgramCommands[Len(ops) + 1]) :
         /\ SetRegistry(b.reg)
         /\ ops' = Append(ops, b.op)
    /\ Raise(KeyboardInterrupt)
    /\ UNCHANGED <<argv, parsed_args, command, verbose_state, set_count, called,
                   out, exits, fallthrough, main_interrupted>>

\* A keyboard interrupt delivered inside the loop of add_to_every_command,
\* lines 105-107 called from 210-214: the loop had reached any set of the
\* registered sub-parsers (a dict's iteration order is arbitrary) that do not
\* have the option yet.
InterruptInAddVerbose ==
    /\ pc = "add_verbose"
    /\ \E reached \in SUBSET {id \in IterSubparsers(CurrentRegistry) :
                                ~Conflicts(CurrentRegistry, id, "-v")} :
         /\ SetRegistry(add_to_every_command(CurrentRegistry, "-v", reached))
         /\ ops' = Append(ops, OpAddToEvery("-v", "KeyboardInterrupt"))
    /\ Raise(KeyboardInterrupt)
    /\ UNCHANGED <<argv, parsed_args, command, verbose_state, set_count, called,
                   out, exits, fallthrough, main_interrupted>>

\* A keyboard interrupt delivered inside parse_args(), line 217: whatever
\* the call had printed so far stays printed, the KeyboardInterrupt replaces
\* the call's own outcome and parsed_args is never assigned.
InterruptInParse ==
    /\ pc = "parse"
    /\ \E words \in ArgLists :
         \E printed \in Prefixes(parse_args(CurrentRegistry, words).out) :
           /\ argv' = words
           /\ out' = out \o printed
    /\ Raise(KeyboardInterrupt)
    /\ UNCHANGED <<regvars, parsed_args, command, verbose_state, set_count, called,
                   exits, fallthrough, main_interrupted>>

\* A keyboard interrupt delivered inside the handler, line 227: the handler
\* was invoked, whatever it had printed so far stays printed, and the
\* KeyboardInterrupt replaces its own outcome.
InterruptInCallback ==
    /\ pc = "callback"
    /\ \E printed \in Prefixes(InvokeCallback(CurrentRegistry, command.callback,
                                              parsed_args).out) :
         /\ called' = Append(called, [callback |-> command.callback,
                                      args |-> parsed_args])
         /\ out' = out \o printed
    /\ Raise(KeyboardInterrupt)
    /\ UNCHANGED <<regvars, argv, parsed_args, command, verbose_state, set_count,
                   exits, fallthrough, main_interrupted>>

\* The write of parse_args() fails, line 217: for an argument list that
\* makes argparse print (the help of line 25 or of -h, a usage error),
\* one of its writes raises IOError; the writes before it stay printed (the
\* usage line, when the write of the "error: ..." line fails) and
\* parsed_args is never assigned.
IOErrorInParse ==
    /\ pc = "parse"
    /\ \E words \in ArgLists :
         LET r == parse_args(CurrentRegistry, words)
         IN  /\ PrintsThroughArgparse(r)
             /\ argv' = words
             /\ \E failing \in 1..Len(r.out) :
                  out' = out \o SubSeq(r.out, 1, failing - 1)
    /\ Raise(OtherException)
    /\ UNCHANGED <<regvars, parsed_args, command, verbose_state, set_count, called,
                   exits, fallthrough, main_interrupted>>

\* The write of do_help's print_help() fails, lines 185 and 193: the handler
\* was invoked, nothing is printed and the IOError leaves run_karton.
IOErrorInCallback ==
    /\ pc = "callback"
    /\ PrintsThroughArgparse(InvokeCallback(CurrentRegistry, command.callback, parsed_args))
    /\ called' = Append(called, [callback |-> command.callback, args |-> parsed_args])
    /\ Raise(OtherException)
    /\ UNCHANGED <<regvars, argv, parsed_args, command, verbose_state, set_count,
                   out, exits, fallthrough, main_interrupted>>

----------------------------------------------------------------------------
\* main, lines 230-253.

\* The process ends with this exit code.
Exit(code) == exits' = Append(exits, code) /\ pc' = "exited"

\* Mutant of MainKeyboardInterrupt: the interrupt is handled like any other
\* failure (no separate except clause).
MainKeyboardInterruptAsFailure ==
    /\ pc = "main"
    /\ exc.type = "KeyboardInterrupt"
    /\ out' = out \o die(MsgInternalErrorDie).out
    /\ Exit(1)
    /\ UNCHANGED <<regvars, argv, parsed_args, command, verbose_state, set_count,
                   called, exc, fallthrough, main_interrupted>>

\* Lines 241-243: except KeyboardInterrupt.
MainKeyboardInterrupt ==
    /\ pc = "main"
    /\ exc.type = "KeyboardInterrupt"
    /\ out' = out \o info(MsgInterrupted)
    /\ Exit(1)
    /\ UNCHANGED <<regvars, argv, parsed_args, command, verbose_state, set_count, called,
                   exc, fallthrough, main_interrupted>>

\* Mutant of MainException: the verbosity is not consulted, die(msg) always.
MainExceptionAlwaysDies ==
    /\ pc = "main"
    /\ exc.type = "Exception"
    /\ LET d == die(MsgInternalErrorDie)
       IN  /\ out' = out \o d.out
           /\ Exit(d.raises.code)
    /\ UNCHANGED <<regvars, argv, parsed_args, command, verbose_state, set_count,
                   called, exc, fallthrough, main_interrupted>>

\* Lines 244-251: except Exception.  With verbose logging on the message is
\* logged and the exception re-raised: nothing catches it, the interpreter
\* prints the traceback and exits 1.  Otherwise die(msg); if die returned,
\* control would go on to line 253.
MainException ==
    /\ pc = "main"
    /\ exc.type = "Exception"
    /\ IF get_verbose(verbose_state)
       THEN /\ out' = out \o verbose(verbose_state, MsgInternalErrorVerbose)
                          \o <<MsgTraceback>>
            /\ Exit(1)
       ELSE LET d == die(MsgInternalErrorDie)
            IN  /\ out' = out \o d.out
                /\ IF d.raises.type = "SystemExit"
                   THEN Exit(d.raises.code)
                   ELSE pc' = "main_end" /\ exits' = exits
    /\ UNCHANGED <<regvars, argv, parsed_args, command, verbose_state, set_count, called,
                   exc, fallthrough, main_interrupted>>

\* Mutant of MainSystemExit: a bare except swallows the SystemExit and
\* control goes on to line 253.
MainSystemExitSwallowed ==
    /\ pc = "main"
    /\ exc.type = "SystemExit"
    /\ pc' = "main_end"
    /\ UNCHANGED <<regvars, runvars>>

\* SystemExit is no Exception: neither clause catches it and the process
\* ends with its code.
MainSystemExit ==
    /\ pc = "main"
    /\ exc.type = "SystemExit"
    /\ Exit(exc.code)
    /\ UNCHANGED <<regvars, argv, parsed_args, command, verbose_state, set_count, called,
                   out, exc, fallthrough, main_interrupted>>

\* What the except clause that handles exc prints before it raises.
MainClauseOutput ==
    CASE pc = "main" /\ exc.type = "KeyboardInterrupt" -> info(MsgInterrupted)
      [] pc = "main" /\ exc.type = "Exception" ->
            IF get_verbose(verbose_state)
            THEN verbose(verbose_state, MsgInternalErrorVerbose)
            ELSE die(MsgInternalErrorDie).out
      [] OTHER -> <<>>

\* A keyboard interrupt delivered while main runs its own statements: at
\* line 239 before the try block is entered, while the except clauses of
\* lines 241 and 244 are matched against the exception run_karton raised,
\* inside a clause (lines 242-243, 246-251) before or after its message, or
\* before line 253.  No try block surrounds these statements: the
\* KeyboardInterrupt replaces whatever was in flight, the interpreter prints
\* its traceback and the process ends with exit code 1.
InterruptInMain ==
    /\ pc \in {"main_try", "main", "main_end"}
    /\ \E printed \in Prefixes(MainClauseOutput) :
         out' = out \o printed \o <<MsgTracebackInterrupt>>
    /\ main_interrupted' = TRUE
    /\ Exit(1)
    /\ UNCHANGED <<regvars, argv, parsed_args, command, verbose_state, set_count, called,
                   exc, fallthrough>>

\* Line 253: raise SystemExit(0).
MainFallThrough ==
    /\ pc = "main_end"
    /\ fallthrough' = TRUE
    /\ Exit(0)
    /\ UNCHANGED <<regvars, argv, parsed_args, command, verbose_state, set_count, called,
                   out, exc, main_interrupted>>

Next ==
    \/ EnterRunKarton
    \/ RegisterCommand
    \/ AddVerboseToAll
    \/ Parse
    \/ SetVerbose
    \/ Lookup
    \/ Callback
    \/ Interrupt
    \/ InterruptInRegister
    \/ InterruptInAddVerbose
    \/ InterruptInParse
    \/ InterruptInCallback
    \/ IOErrorInParse
    \/ IOErrorInCallback
    \/ InterruptInMain
    \/ MainKeyboardInterrupt
    \/ MainException
    \/ MainSystemExit
    \/ MainFallThrough

Spec == Init /\ [][Next]_vars

----------------------------------------------------------------------------
\* The registry operations on their own: any sequence of add_command,
\* add_to_every_command and SharedArgument.add_group_to_parser calls (the
\* last on a sub-parser add_command returned, with the cd_args group), made
\* on the empty registry run_karton starts with or after the program's own
\* sequence of lines 126-214.

ApiNames == {"run", "shell", "help"}
ApiCallbacks == {"do_run", "do_shell"}
ApiOpts == {"-v", "-q"}

\* A further call can be made: on the registry as run_karton created it, or
\* after the program's sequence completed, or after an earlier such call.
ApiCallPossible ==
    /\ \/ pc = "register" /\ ops = <<>>
       \/ pc = "parse"
       \/ pc = "api"
    /\ IF BootstrapDone THEN Len(ops) < Len(ProgramOps) + MaxExtraOps
       ELSE Len(ops) < MaxOps

ApiAddCommand ==
    /\ ApiCallPossible
    /\ \E name \in ApiNames, callback \in ApiCallbacks, has_help \in BOOLEAN :
         LET R == add_command(CurrentRegistry, name, callback, has_help)
         IN  /\ SetRegistry(R)
             /\ ops' = Append(ops, OpAddCommand(name, callback, Len(R.heap)))
    /\ pc' = "api"
    /\ UNCHANGED runvars

ApiAddToEveryCommand ==
    /\ ApiCallPossible
    /\ \E opt \in ApiOpts :
         \E reached \in EveryCommandReach(CurrentRegistry, opt) :
           /\ SetRegistry(add_to_every_command(CurrentRegistry, opt, reached))
           /\ ops' = Append(ops, OpAddToEvery(opt, EveryCommandResult(CurrentRegistry, opt)))
    /\ pc' = "api"
    /\ UNCHANGED runvars

ApiAddGroupToParser ==
    /\ ApiCallPossible
    /\ \E id \in DOMAIN heap :
         LET g == add_group_to_parser(CurrentRegistry, id, cd_args)
         IN  /\ SetRegistry(g.reg)
             /\ ops' = Append(ops, OpAddGroup(id, IF g.raises = NoExc THEN "ok"
                                                  ELSE "ArgumentError"))
    /\ pc' = "api"
    /\ UNCHANGED runvars

NextReg ==
    \/ EnterRunKarton
    \/ RegisterCommand
    \/ AddVerboseToAll
    \/ ApiAddCommand
    \/ ApiAddToEveryCommand
    \/ ApiAddGroupToParser

SpecReg == Init /\ [][NextReg]_vars

----------------------------------------------------------------------------
\* Properties.

Exited == pc = "exited"
\* run_karton ended with a KeyboardInterrupt.
Interrupted == exc.type = "KeyboardInterrupt"
\* run_karton ended with an Exception; in the program only a failed write of
\* argparse's output does that.
Failed == exc.type = "Exception"
ParseSucceeded == parsed_args.command # NoneValue

\* parse_args() has run to its end in this invocation: it returned a
\* namespace or ended the process itself.
ParseCalled ==
    /\ BootstrapDone
    /\ pc \in {"set_verbose", "lookup", "callback", "main", "main_end", "exited"}
    /\ ~Interrupted \/ ParseSucceeded

CountOut(S) == Cardinality({i \in DOMAIN out : out[i] \in S})
InternalErrorMsgs == {MsgInternalErrorDie, MsgInternalErrorVerbose}
HelpMsgs == {m \in {out[i] : i \in DOMAIN out} : m.kind = "help"}

\* C1 (as stated): in every invocation the verbosity is written exactly
\* once, with the parsed verbose flag, before any handler runs, and never
\* written again.  "Every invocation" includes the ones whose parse ends the
\* process (for instance no arguments at all); invocations that an
\* interrupt or a failed write ended are left aside here.
C1_SetExactlyOnceAlways ==
    /\ set_count <= 1
    /\ (set_count = 1 => verbose_state = parsed_args.verbose)
    /\ (called # <<>> => set_count = 1)
    /\ ((Exited /\ ~Interrupted /\ ~Failed /\ ~main_interrupted) => set_count = 1)

\* C1 (amended): the verbosity starts off and is written at most once; an
\* invocation whose parse succeeds writes it exactly once, with the parsed
\* verbose flag, before the registry lookup and before any handler runs, and
\* never again; an invocation whose parse does not return never writes it.
C1_SetOnceAfterParse ==
    /\ set_count \in {0, 1}
    /\ (set_count = 0 => verbose_state = FALSE)
    /\ (set_count = 1 => ParseSucceeded /\ verbose_state = parsed_args.verbose)
    /\ (called # <<>> => set_count = 1)
    /\ (pc \in {"lookup", "callback", "main_end"} => set_count = 1)
    /\ ((pc \in {"main", "exited"} /\ ParseSucceeded /\ ~Interrupted) => set_count = 1)
    /\ (~ParseSucceeded => set_count = 0)

C1_Witness ==
    /\ Exited
    /\ set_count = 1
    /\ verbose_state = TRUE
    /\ called # <<>>

\* C2: when run_karton raised an Exception the process ends with exit code
\* 1 without reaching line 253.  With verbosity on, main logs the
\* internal-error message once through verbose() and re-raises: the
\* traceback of the Exception is the last output and die is not used.  With
\* verbosity off it emits exactly one internal-error message through die,
\* as the last output, and no traceback of the Exception.  An interrupt that
\* lands inside the except clause cuts the clause short (at most the one
\* message, then the interrupt's own traceback) and the exit code is still 1.
C2_InternalErrorAsymmetry ==
    (Exited /\ Failed) =>
        /\ exits = <<1>>
        /\ ~fallthrough
        /\ CountOut({MsgInterrupted}) = 0
        /\ IF verbose_state
           THEN /\ CountOut({MsgInternalErrorDie}) = 0
                /\ CountOut({MsgInternalErrorVerbose}) <= 1
                /\ ~main_interrupted =>
                     /\ Len(out) >= 2
                     /\ out[Len(out) - 1] = MsgInternalErrorVerbose
                     /\ out[Len(out)] = MsgTraceback
                     /\ CountOut({MsgInternalErrorVerbose}) = 1
                     /\ CountOut({MsgTraceback}) = 1
           ELSE /\ CountOut({MsgInternalErrorVerbose, MsgTraceback}) = 0
                /\ CountOut({MsgInternalErrorDie}) <= 1
                /\ ~main_interrupted =>
                     /\ out # <<>>
                     /\ out[Len(out)] = MsgInternalErrorDie
                     /\ CountOut({MsgInternalErrorDie}) = 1
                     /\ CountOut({MsgTracebackInterrupt}) = 0

C2_Witness ==
    /\ Exited
    /\ Failed
    /\ ~main_interrupted
    /\ verbose_state = TRUE
    /\ called # <<>>
    /\ exits = <<1>>
    /\ out = <<MsgInternalErrorVerbose, MsgTraceback>>

\* C3: a KeyboardInterrupt raised during run_karton (registration, parsing,
\* verbosity setup, lookup or the handler) ends the process with exit code
\* 1, with no internal-error message and without the interrupt being
\* re-raised as a failure, whatever the verbosity; main prints the
\* interruption notice once, as its last output.  Only a second interrupt,
\* landing inside the except clause itself, can cut the clause short: the
\* exit code is still 1 and the notice is printed at most once.
C3_InterruptExitsOne ==
    (Exited /\ Interrupted) =>
        /\ exits = <<1>>
        /\ ~fallthrough
        /\ CountOut(InternalErrorMsgs \cup {MsgTraceback}) = 0
        /\ CountOut({MsgInterrupted}) <= 1
        /\ ~main_interrupted =>
             /\ out # <<>>
             /\ out[Len(out)] = MsgInterrupted
             /\ CountOut({MsgInterrupted}) = 1
             /\ CountOut({MsgTracebackInterrupt}) = 0

C3_Witness ==
    /\ Exited
    /\ Interrupted
    /\ ~main_interrupted
    /\ verbose_state = TRUE
    /\ called # <<>>
    /\ exits = <<1>>
    /\ out[Len(out)] = MsgInterrupted

\* C4 (as stated): every invocation ends with exactly one exit code, exit
\* code 0 is produced if and only if run_karton returned normally, and line
\* 253 is never reached when something raised.  Invocations interrupted
\* while main's own statements run are left aside here.
C4_ZeroIffReturned ==
    (Exited /\ ~main_interrupted) =>
        /\ Len(exits) = 1
        /\ (exits[1] = 0 <=> exc.type = "none")
        /\ (exc.type # "none" => ~fallthrough)

\* C4 (amended): every invocation ends with exactly one exit code.  Line 253
\* is reached only if run_karton returned normally, and then the code is 0;
\* it is reached whenever run_karton returned normally and no interrupt
\* arrived in main before it.  A SystemExit raised inside run_karton ends
\* the process with its own code (0 for argparse's -h, non-zero otherwise),
\* an interrupt or any other failure with 1: the trailing exit 0 never
\* overrides any of them.  An interrupt that arrives while main's own
\* statements run ends the process with 1 and line 253 is not reached.
C4_OneExitNoOverride ==
    /\ Len(exits) <= 1
    /\ (exits # <<>> <=> Exited)
    /\ (fallthrough => Exited /\ exc.type = "none" /\ ~main_interrupted /\ exits = <<0>>)
    /\ (main_interrupted => Exited /\ exits = <<1>>)
    /\ (Exited /\ ~main_interrupted) =>
        /\ (exc.type = "none" => fallthrough /\ exits = <<0>>)
        /\ (exc.type = "SystemExit" => exits = <<exc.code>>)
        /\ (exc.type \in {"KeyboardInterrupt", "Exception"} => exits = <<1>>)
    /\ (exits = <<0>> => exc \in {NoExc, SystemExit(0)})

C4_Witness ==
    /\ Exited
    /\ ~main_interrupted
    /\ called # <<>>
    /\ exc = SystemExit(1)
    /\ exits = <<1>>
    /\ ~fallthrough

\* parse_args() was called with an empty argument list.
ZeroArguments == ParseCalled /\ argv = <<>>

\* C5: with no arguments the invocation ends inside parse_args(): exit code
\* 1, no usage error, the verbosity is not written and no handler is called.
\* Unless the write of the help fails, parse_args() raises SystemExit(1)
\* after printing the program help, which is the first output, and the only
\* one unless an interrupt lands in main before the process ends.
C5_NoArgumentsHelpExitOne ==
    ZeroArguments =>
        /\ pc \in {"main", "exited"}
        /\ set_count = 0
        /\ called = <<>>
        /\ CountOut({MsgUsage, MsgUsageError}) = 0
        /\ (Exited => exits = <<1>>)
        /\ ~Failed =>
             /\ exc = SystemExit(1)
             /\ out # <<>>
             /\ out[1] = MsgProgramHelp
             /\ (~main_interrupted => out = <<MsgProgramHelp>>)
             /\ (main_interrupted => out = <<MsgProgramHelp, MsgTracebackInterrupt>>)

C5_Witness ==
    /\ ZeroArguments
    /\ Exited
    /\ ~main_interrupted
    /\ exits = <<1>>
    /\ out = <<MsgProgramHelp>>

\* The parsed command is 'help <name>' with a name that is not registered.
HelpUnknown ==
    /\ ParseSucceeded
    /\ parsed_args.command = "help"
    /\ parsed_args.sub_command \notin (DOMAIN all_commands) \cup {NoneValue}

\* C6: 'help <name>' with an unregistered name, when no interrupt ends the
\* handler, emits first the one message that names it and suggests help,
\* prints no help, ends with a non-zero code through die's SystemExit, and
\* does not go through main's internal-error handling, with or without -v.
\* The message is the only output unless an interrupt lands in main while
\* the SystemExit passes through it.
C6_HelpUnknownCommand ==
    (Exited /\ ~Interrupted /\ HelpUnknown) =>
        /\ exc = SystemExit(1)
        /\ out # <<>>
        /\ out[1] = MsgNotAKartonCommand(parsed_args.sub_command)
        /\ HelpMsgs = {}
        /\ exits = <<1>>
        /\ CountOut(InternalErrorMsgs \cup {MsgTraceback}) = 0
        /\ (~main_interrupted =>
               out = <<MsgNotAKartonCommand(parsed_args.sub_command)>>)
        /\ (main_interrupted =>
               out = <<MsgNotAKartonCommand(parsed_args.sub_command),
                       MsgTracebackInterrupt>>)

C6_Witness ==
    /\ Exited
    /\ ~main_interrupted
    /\ HelpUnknown
    /\ parsed_args.sub_command = "bogus"
    /\ verbose_state = TRUE
    /\ exits = <<1>>

----------------------------------------------------------------------------
\* Properties of the registry, read off the history of calls.

AddIdx == {i \in DOMAIN ops : ops[i].op = "add_command"}
EveryIdx(a) == {i \in DOMAIN ops : ops[i].op = "add_to_every_command" /\ ops[i].opt = a}

\* The first and the latest registration of the name n.
FirstRegistration(n) ==
    CHOOSE i \in AddIdx : ops[i].name = n /\ \A j \in AddIdx : ops[j].name = n => i <= j
LastRegistration(n) ==
    CHOOSE i \in AddIdx : ops[i].name = n /\ \A j \in AddIdx : ops[j].name = n => j <= i

\* The i-th call registers a name that an earlier call registered.
IsDuplicate(i) == \E j \in AddIdx : j < i /\ ops[j].name = ops[i].name

\* The call that created the sub-parser p.
CreatedAt(p) == CHOOSE i \in AddIdx : ops[i].id = p

\* The sub-parser p belonged to a command of the registry when the i-th call
\* was made: it was created before, and its name was not registered again in
\* between.
InRegistryAt(p, i) ==
    LET c == CreatedAt(p)
    IN  /\ c < i
        /\ ~\E j \in AddIdx : c < j /\ j < i /\ ops[j].name = ops[c].name

\* C7: add_command under a name already registered fails and leaves the
\* entry of the first registration in place; under distinct names every
\* registration succeeds and its entry is retrievable under its name.
C7_DuplicateNameRejected ==
    /\ \A i \in AddIdx :
         /\ ops[i].name \in DOMAIN all_commands
         /\ IF IsDuplicate(i) THEN ops[i].result # "ok" ELSE ops[i].result = "ok"
    /\ \A n \in DOMAIN all_commands :
         LET f == FirstRegistration(n)
         IN  all_commands[n] = CommandInfo(n, ops[f].id, ops[f].callback)

\* C8: a sub-parser has a shared option only from an add_to_every_command
\* call made while it was in the registry, and every such call that
\* completed gave it the option: sub-parsers registered before the call have
\* it, those registered after it do not.  In the program the one call
\* follows the seven registrations: right after it the registry holds the
\* seven commands, and from then on every command the program registered
\* has -v on its sub-parser and, unless its name has been registered again,
\* '<command> -v' parses with verbose set.
C8_AddToEveryCommandSnapshot ==
    /\ \A p \in DOMAIN heap, a \in ApiOpts :
         /\ a \in heap[p].opts => \E i \in EveryIdx(a) : InRegistryAt(p, i)
         /\ \A i \in EveryIdx(a) :
              (ops[i].result = "ok" /\ InRegistryAt(p, i)) => a \in heap[p].opts
    /\ BootstrapDone =>
         /\ Len(ops) = Len(ProgramOps) =>
              /\ DOMAIN all_commands = CommandNames
              /\ \A n \in CommandNames :
                   all_commands[n].subparser = ops[FirstRegistration(n)].id
         /\ \A n \in CommandNames :
              /\ "-v" \in heap[ops[FirstRegistration(n)].id].opts
              /\ all_commands[n].subparser = ops[FirstRegistration(n)].id =>
                   /\ parse_args(CurrentRegistry, <<n, "-v">>).raises = NoExc
                   /\ parse_args(CurrentRegistry, <<n, "-v">>).ns.verbose = TRUE

\* After the program's sequence a command is registered again: its new
\* sub-parser lacks -v (and 'shell -v' is a usage error) while the commands
\* registered before the call have it.
C8_Witness ==
    /\ BootstrapDone
    /\ \E i \in EveryIdx("-v") : \E p, q \in DOMAIN heap :
        /\ ops[i].result = "ok"
        /\ InRegistryAt(p, i)
        /\ "-v" \in heap[p].opts
        /\ CreatedAt(q) > i
        /\ "-v" \notin heap[q].opts
        /\ all_commands["shell"].subparser = q
    /\ parse_args(CurrentRegistry, <<"run", "-v">>).ns.verbose = TRUE
    /\ parse_args(CurrentRegistry, <<"shell", "-v">>).raises = SystemExit(2)

\* The parsed command is 'help' alone, or 'help <name>' with a registered
\* name.
HelpNoArgument ==
    /\ ParseSucceeded
    /\ parsed_args.command = "help"
    /\ parsed_args.sub_command = NoneValue

HelpKnown ==
    /\ ParseSucceeded
    /\ parsed_args.command = "help"
    /\ parsed_args.sub_command \in DOMAIN all_commands

\* C9: 'help' alone prints the program help (what the invocation without
\* arguments prints) and 'help <name>' for a registered name prints that
\* command's help and no other help.  Unless an interrupt or a failed write
\* ends the handler, it returns normally after printing exactly that; the
\* invocation then ends with exit code 0 through line 253, unless an
\* interrupt lands in main before line 253.
C9_HelpOutput ==
    /\ (ZeroArguments /\ ~Failed) => (out # <<>> /\ out[1] = MsgProgramHelp)
    /\ (Exited /\ ~Interrupted /\ ~Failed /\ HelpNoArgument) =>
         /\ exc = NoExc
         /\ out # <<>>
         /\ out[1] = MsgProgramHelp
         /\ HelpMsgs = {MsgProgramHelp}
         /\ ~main_interrupted =>
              /\ out = <<MsgProgramHelp>>
              /\ fallthrough
              /\ exits = <<0>>
    /\ (Exited /\ ~Interrupted /\ ~Failed /\ HelpKnown) =>
         /\ exc = NoExc
         /\ out # <<>>
         /\ out[1] = MsgCommandHelp(parsed_args.sub_command)
         /\ HelpMsgs = {MsgCommandHelp(parsed_args.sub_command)}
         /\ ~main_interrupted =>
              /\ out = <<MsgCommandHelp(parsed_args.sub_command)>>
              /\ fallthrough
              /\ exits = <<0>>

C9_Witness ==
    /\ Exited
    /\ ~main_interrupted
    /\ HelpKnown
    /\ parsed_args.sub_command = "run"
    /\ out = <<MsgCommandHelp("run")>>
    /\ exits = <<0>>

\* C10: a handler runs at most once, only after parse_args returned a
\* namespace, and it is the callback registered under the parsed command
\* name, called with that namespace; a parsed name that is not in the
\* registry runs no handler and ends in the 'Invalid command' fatal error,
\* which no argument list reaches.
C10_DispatchRegisteredCallback ==
    /\ Len(called) <= 1
    /\ called # <<>> =>
         /\ ParseCalled
         /\ parse_args(CurrentRegistry, argv) = ParseOk(parsed_args)
         /\ called[1].args = parsed_args
         /\ called[1].callback = ops[LastRegistration(parsed_args.command)].callback
    /\ (ParseCalled /\ ~ParseSucceeded) => called = <<>>
    /\ \A i \in DOMAIN out : out[i].kind # MsgInvalidCommand(NoneValue).kind
    /\ pc \in {"callback", "main_end"} => parsed_args.command \in DOMAIN all_commands
    /\ (ParseSucceeded /\ ~Interrupted /\ pc \in {"main", "exited"}
            /\ parsed_args.command \notin DOMAIN all_commands) =>
         /\ called = <<>>
         /\ out[Len(out)] = MsgInvalidCommand(parsed_args.command)
         /\ exc.type = "SystemExit"

C10_Witness ==
    /\ Exited
    /\ parsed_args.command = "status"
    /\ called = <<[callback |-> "do_status", args |-> parsed_args]>>
    /\ exc = NoExc
    /\ exits = <<0>>

====
